---- MODULE Spec2Model ----
(***************************************************************************)
(* A model of the folder launcher (fnfgui.py and fnfguiV1.0.py): the       *)
(* folder scanner, the preference store and the launcher window's          *)
(* handlers.                                                               *)
(*                                                                         *)
(* Text (file names, directory paths, theme names) is a sequence of        *)
(* one-character strings, so that str.lower, str.endswith, str.strip and   *)
(* sorted() are computed character by character.  An optional value        *)
(* (Python's None or a value) is the empty sequence or a one-element       *)
(* sequence.  A dict is a function; the empty dict is << >>.               *)
(***************************************************************************)
EXTENDS Integers, Sequences, FiniteSets, TLC

VARIABLES
    world,      \* the filesystem: start path -> tree (relative path -> "dir"/"file")
    order,      \* the enumeration order of os.listdir / os.walk: a sequence of names
    pc,         \* scanner study: "build" while the tree is laid out, "scanned" after
    plainMap,   \* scanner study: result of fnfgui.py's get_first_level_folders_with_executables
    iconMap,    \* scanner study: result of fnfguiV1.0.py's get_first_level_folders_with_executables
    scanMsgs,   \* scanner study: message boxes the two scans showed
    dirCache,   \* ~/.executable_launcher_cache
    themeCache, \* ~/.executable_launcher_theme_cache
    themeFile,  \* ~/themes.json
    phase,      \* "off", "running", or how the session ended: "closed", "cancelled", "crashed"
    gui,        \* the main window: current_dir_label, current_theme_name, current_theme,
                \* the dropdown menu, the button frame, the map the buttons were built from
    editor,     \* the theme editor window
    msgs,       \* the message boxes the last handler showed
    escaped,    \* whether an exception escaped the last handler
    last,       \* the last handler run, with its input
    saved,      \* history: the theme last saved under a built-in name and not deleted since,
                \* and whether it is still the theme the user selected last
    spawned,    \* the processes the last press of a launch button started
    instances   \* race study: the launcher instances that write the user theme file

scanVars == <<pc, plainMap, iconMap, scanMsgs>>
fileVars == <<dirCache, themeCache, themeFile>>
appVars == <<dirCache, themeCache, themeFile, phase, gui, editor, msgs, escaped, last, saved, spawned, instances>>
vars == <<world, order, scanVars, appVars>>

(***************************************************************************)
(* Bounds of the scanner study.                                            *)
(***************************************************************************)
\* Directories nest at most this deep below the start directory.
MaxDepth == 3
\* The start directory's tree holds at most this many files and directories.
MaxEntries == 4

(***************************************************************************)
(* Text.                                                                   *)
(***************************************************************************)
\* str.lower on one character (the letters the model's names use).
UpperToLower ==
    [c \in {"A", "B", "E", "X", "S"} |->
        CASE c = "A" -> "a" [] c = "B" -> "b" [] c = "E" -> "e"
          [] c = "X" -> "x" [] c = "S" -> "s"]

LowerChar(c) == IF c \in DOMAIN UpperToLower THEN UpperToLower[c] ELSE c

\* file.lower()
Lower(s) == [i \in 1..Len(s) |-> LowerChar(s[i])]

\* s.endswith(suffix)
EndsWith(s, suffix) ==
    /\ Len(s) >= Len(suffix)
    /\ SubSeq(s, Len(s) - Len(suffix) + 1, Len(s)) = suffix

\* common_extensions = ['.exe']
common_extensions == << <<".", "e", "x", "e">> >>

\* any(file.lower().endswith(ext) for ext in executable_extensions)
IsExecutableName(file, executable_extensions) ==
    \E k \in 1..Len(executable_extensions) :
        EndsWith(Lower(file), executable_extensions[k])

\* icon_file_names = ["icon.ico", "icon.png", "icon.gif"]
icon_file_names ==
    << <<"i", "c", "o", "n", ".", "i", "c", "o">>,
       <<"i", "c", "o", "n", ".", "p", "n", "g">>,
       <<"i", "c", "o", "n", ".", "g", "i", "f">> >>

(***************************************************************************)
(* The filesystem.  A tree maps the relative path of each entry (a         *)
(* sequence of names; << >> is the start path itself) to its kind.  A      *)
(* start path that is missing has the empty tree.                          *)
(***************************************************************************)
NameA    == <<"A">>
NameSub  == <<"s">>
NameExe  == <<"a", ".", "e", "x", "e">>
NameEXE  == <<"B", ".", "E", "X", "E">>

Names == {NameA, NameSub, NameExe, NameEXE,
          icon_file_names[1], icon_file_names[2], icon_file_names[3]}

\* The names the study gives to directories, and to files.
DirNames == {NameA, NameSub, NameExe}
FileNames == Names \ {NameSub}

ForwardOrder ==
    <<NameExe, NameEXE, NameA, NameSub,
      icon_file_names[1], icon_file_names[2], icon_file_names[3]>>

Reverse(s) == [i \in 1..Len(s) |-> s[Len(s) + 1 - i]]

\* The enumeration orders the study draws from.
Orders == {ForwardOrder, Reverse(ForwardOrder)}

\* The start directory of the scanner study.
ScanRoot == <<"/", "g">>

EmptyTree == << >>
RootOnly == [p \in {<< >>} |-> "dir"]

Exists(tree, p) == p \in DOMAIN tree
\* os.path.isdir
IsDir(tree, p) == p \in DOMAIN tree /\ tree[p] = "dir"
IsFile(tree, p) == p \in DOMAIN tree /\ tree[p] = "file"

\* The tree at a path; a path the filesystem does not hold is missing.
TreeAt(fs, path) == IF path \in DOMAIN fs THEN fs[path] ELSE EmptyTree

\* os.path.isdir(directory_path) of a start path
IsDirectory(fs, path) == IsDir(TreeAt(fs, path), << >>)

\* os.path.join(root, name), relative to the start path
Join(p, name) == Append(p, name)

\* os.listdir / os.scandir: the names present in directory p, in enumeration order
ListDir(tree, p, ord) ==
    SelectSeq(ord, LAMBDA n : Exists(tree, Join(p, n)))

\* A walk that does not descend: only the top directory is listed.
OsWalkTopOnly(tree, top, ord) ==
    IF ~(top \in DOMAIN tree /\ tree[top] = "dir") THEN << >>
    ELSE LET entries == ListDir(tree, top, ord)
             isdir(n) == Append(top, n) \in DOMAIN tree /\ tree[Append(top, n)] = "dir"
         IN  <<[root |-> top, dirs |-> SelectSeq(entries, isdir),
                files |-> SelectSeq(entries, LAMBDA n : ~isdir(n))]>>

RECURSIVE OsWalk(_, _, _)
RECURSIVE WalkInto(_, _, _, _)
\* os.walk(top), top-down: (root, dirs, files) of top, then of each directory in dirs
OsWalk(tree, top, ord) ==
    IF ~IsDir(tree, top) THEN << >>
    ELSE LET entries == ListDir(tree, top, ord)
             dirs    == SelectSeq(entries, LAMBDA n : IsDir(tree, Join(top, n)))
             files   == SelectSeq(entries, LAMBDA n : ~IsDir(tree, Join(top, n)))
         IN  <<[root |-> top, dirs |-> dirs, files |-> files]>>
                 \o WalkInto(tree, top, dirs, ord)

WalkInto(tree, top, dirs, ord) ==
    IF dirs = << >> THEN << >>
    ELSE OsWalk(tree, Join(top, Head(dirs)), ord)
             \o WalkInto(tree, top, Tail(dirs), ord)

(***************************************************************************)
(* Folder Scanner, fnfgui.py.                                              *)
(***************************************************************************)
RECURSIVE LastInFiles(_, _, _)
\* A search that keeps going after a match: the last matching file of one directory.
LastInFiles(root, files, executable_extensions) ==
    IF files = << >> THEN << >>
    ELSE LET later == LastInFiles(root, Tail(files), executable_extensions)
         IN  IF later # << >> THEN later
             ELSE IF IsExecutableName(Head(files), executable_extensions)
                  THEN <<Join(root, Head(files))>>
                  ELSE << >>

RECURSIVE FirstInFiles(_, _, _)
\* the inner loop `for file in files`: the first matching file of one directory
FirstInFiles(root, files, executable_extensions) ==
    IF files = << >> THEN << >>
    ELSE IF IsExecutableName(Head(files), executable_extensions)
         THEN <<Join(root, Head(files))>>
         ELSE FirstInFiles(root, Tail(files), executable_extensions)

RECURSIVE FirstInWalk(_, _)
\* the outer loop `for root, dirs, files in os.walk(folder_path)`, returning at the first match
FirstInWalk(walk, executable_extensions) ==
    IF walk = << >> THEN << >>
    ELSE LET found == FirstInFiles(Head(walk).root, Head(walk).files,
                                   executable_extensions)
         IN  IF found # << >> THEN found
             ELSE FirstInWalk(Tail(walk), executable_extensions)

\* find_first_executable_in_folder: << >> (None) or <<file_path>>
find_first_executable_in_folder(tree, folder_path, executable_extensions, ord) ==
    FirstInWalk(OsWalk(tree, folder_path, ord), executable_extensions)

\* A full path: the start directory and the path below it.
FullPath(start_directory, rel) == [base |-> start_directory, rel |-> rel]

\* The children the loop over os.listdir(start_directory) visits.
FirstLevelItems(tree, ord) == {Head(p) : p \in {q \in DOMAIN tree : Len(q) = 1}}

\* fnfgui.py get_first_level_folders_with_executables: the returned dict
plain_get_first_level_folders_with_executables(fs, start_directory, executable_extensions, ord) ==
    LET tree == TreeAt(fs, start_directory)
        found(item_name) ==
            find_first_executable_in_folder(tree, <<item_name>>,
                                            executable_extensions, ord)
    IN  IF ~IsDir(tree, << >>) THEN << >>
        ELSE [item_name \in {n \in FirstLevelItems(tree, ord) :
                                /\ IsDir(tree, <<n>>)
                                /\ found(n) # << >>}
                 |-> FullPath(start_directory, found(item_name)[1])]

(***************************************************************************)
(* Folder Scanner, fnfguiV1.0.py.                                          *)
(***************************************************************************)
RECURSIVE LastIcon(_, _, _)
\* An icon search with the priority reversed: the last candidate that exists.
LastIcon(tree, root, icon_names) ==
    IF icon_names = << >> THEN << >>
    ELSE LET later == LastIcon(tree, root, Tail(icon_names))
         IN  IF later # << >> THEN later
             ELSE IF Exists(tree, Join(root, Head(icon_names)))
                  THEN <<Join(root, Head(icon_names))>>
                  ELSE << >>

RECURSIVE FirstIcon(_, _, _)
\* the loop over icon_file_names: the first candidate that os.path.exists
FirstIcon(tree, root, icon_names) ==
    IF icon_names = << >> THEN << >>
    ELSE IF Exists(tree, Join(root, Head(icon_names)))
         THEN <<Join(root, Head(icon_names))>>
         ELSE FirstIcon(tree, root, Tail(icon_names))

RECURSIVE LastWithIconInFiles(_, _, _, _)
\* An inner loop without the return: the last matching file of one directory.
LastWithIconInFiles(tree, root, files, executable_extensions) ==
    IF files = << >> THEN << >>
    ELSE LET later == LastWithIconInFiles(tree, root, Tail(files), executable_extensions)
         IN  IF later # << >> THEN later
             ELSE IF IsExecutableName(Head(files), executable_extensions)
                  THEN <<[exe  |-> Join(root, Head(files)),
                          icon |-> FirstIcon(tree, root, icon_file_names)]>>
                  ELSE << >>

RECURSIVE FirstWithIconInFiles(_, _, _, _)
\* the inner loop `for file in files`: the first matching file, with its icon
FirstWithIconInFiles(tree, root, files, executable_extensions) ==
    IF files = << >> THEN << >>
    ELSE IF IsExecutableName(Head(files), executable_extensions)
         THEN <<[exe  |-> Join(root, Head(files)),
                 icon |-> FirstIcon(tree, root, icon_file_names)]>>
         ELSE FirstWithIconInFiles(tree, root, Tail(files), executable_extensions)

RECURSIVE FirstWithIconInWalk(_, _, _)
FirstWithIconInWalk(tree, walk, executable_extensions) ==
    IF walk = << >> THEN << >>
    ELSE LET found == FirstWithIconInFiles(tree, Head(walk).root, Head(walk).files,
                                           executable_extensions)
         IN  IF found # << >> THEN found
             ELSE FirstWithIconInWalk(tree, Tail(walk), executable_extensions)

\* find_first_executable_and_icon_in_folder: << >> (None) or <<(executable_path, icon_path)>>
find_first_executable_and_icon_in_folder(tree, folder_path, executable_extensions, ord) ==
    FirstWithIconInWalk(tree, OsWalk(tree, folder_path, ord), executable_extensions)

\* the (executable_path, icon_path) pair as full paths; icon_path is << >> for None
FullPair(start_directory, pair) ==
    [exe  |-> FullPath(start_directory, pair.exe),
     icon |-> IF pair.icon = << >> THEN << >>
              ELSE <<FullPath(start_directory, pair.icon[1])>>]

\* fnfguiV1.0.py get_first_level_folders_with_executables: the returned dict
get_first_level_folders_with_executables(fs, start_directory, executable_extensions, ord) ==
    LET tree == TreeAt(fs, start_directory)
        result(item_name) ==
            find_first_executable_and_icon_in_folder(tree, <<item_name>>,
                                                     executable_extensions, ord)
    IN  IF ~IsDir(tree, << >>) THEN << >>
        ELSE [item_name \in {n \in FirstLevelItems(tree, ord) :
                                /\ IsDir(tree, <<n>>)
                                /\ result(n) # << >>}
                 |-> FullPair(start_directory, result(item_name)[1])]

\* messagebox.showerror("Error", "The directory ... does not exist.") of either scanner
ScanMessages(fs, start_directory) ==
    IF ~IsDirectory(fs, start_directory) THEN {"Error: directory does not exist"}
    ELSE {}

(***************************************************************************)
(* Text of the preference store and of the button list.                    *)
(***************************************************************************)
Whitespace == {" ", "\t", "\n"}

RECURSIVE LStrip(_)
LStrip(s) == IF s # << >> /\ Head(s) \in Whitespace THEN LStrip(Tail(s)) ELSE s

RECURSIVE RStrip(_)
RStrip(s) ==
    IF s # << >> /\ s[Len(s)] \in Whitespace THEN RStrip(SubSeq(s, 1, Len(s) - 1)) ELSE s

\* f.read().strip()
Strip(s) == RStrip(LStrip(s))

\* ord(c) of the characters the model's names use
CodePoints == {<<" ", 32>>, <<".", 46>>, <<"/", 47>>, <<"A", 65>>, <<"B", 66>>, <<"D", 68>>, <<"E", 69>>, <<"M", 77>>, <<"N", 78>>, <<"P", 80>>, <<"S", 83>>, <<"U", 85>>, <<"X", 88>>, <<"a", 97>>, <<"b", 98>>, <<"c", 99>>, <<"d", 100>>, <<"e", 101>>, <<"f", 102>>, <<"g", 103>>, <<"h", 104>>, <<"i", 105>>, <<"k", 107>>, <<"l", 108>>, <<"m", 109>>, <<"n", 110>>, <<"o", 111>>, <<"r", 114>>, <<"s", 115>>, <<"t", 116>>, <<"x", 120>>, <<"y", 121>>, <<"z", 122>>}

Ord(c) == (CHOOSE pair \in CodePoints : pair[1] = c)[2]

\* Python's s < t on str: by code point, a proper prefix first
StrLess(s, t) ==
    \E i \in 1..(Len(t)) :
        /\ \A j \in 1..(i - 1) : j <= Len(s) /\ s[j] = t[j]
        /\ \/ Len(s) = i - 1
           \/ (Len(s) >= i /\ Ord(s[i]) < Ord(t[i]))

RECURSIVE Sorted(_)
\* sorted(keys): the names of a set in ascending order
Sorted(S) ==
    IF S = {} THEN << >>
    ELSE LET least == CHOOSE x \in S : \A y \in S \ {x} : StrLess(x, y)
         IN  <<least>> \o Sorted(S \ {least})

(***************************************************************************)
(* Theme Management, fnfguiV1.0.py.                                        *)
(***************************************************************************)
Steam == <<"S", "t", "e", "a", "m">>
Dark == <<"D", "a", "r", "k">>
Nintendo == <<"N", "i", "n", "t", "e", "n", "d", "o">>
PlayStation == <<"P", "l", "a", "y", "S", "t", "a", "t", "i", "o", "n">>
Xbox == <<"X", "b", "o", "x">>
Ubisoft == <<"U", "b", "i", "s", "o", "f", "t">>
Blizzard == <<"B", "l", "i", "z", "z", "a", "r", "d">>

SteamColors ==
    [bg_dark |-> "#1b2838", bg |-> "#3b526b", fg |-> "white", hover |-> "#2a475e", click |-> "#417a9b", label_fg |-> "white", label_bg |-> "#1b2838"]
DarkColors ==
    [bg_dark |-> "#2c3e50", bg |-> "#34495e", fg |-> "white", hover |-> "#3b526b", click |-> "#4a6078", label_fg |-> "white", label_bg |-> "#2c3e50"]
NintendoColors ==
    [bg_dark |-> "#E60012", bg |-> "#FF0018", fg |-> "white", hover |-> "#CC0010", click |-> "#B3000E", label_fg |-> "white", label_bg |-> "#E60012"]
PlayStationColors ==
    [bg_dark |-> "#003399", bg |-> "#004C99", fg |-> "white", hover |-> "#002B7A", click |-> "#002566", label_fg |-> "white", label_bg |-> "#003399"]
XboxColors ==
    [bg_dark |-> "#107C10", bg |-> "#28A745", fg |-> "white", hover |-> "#0C6A0C", click |-> "#0A550A", label_fg |-> "white", label_bg |-> "#107C10"]
UbisoftColors ==
    [bg_dark |-> "#000000", bg |-> "#1E2C3D", fg |-> "#0090FF", hover |-> "#2A3C50", click |-> "#3A4E65", label_fg |-> "#0090FF", label_bg |-> "#000000"]
BlizzardColors ==
    [bg_dark |-> "#0070D7", bg |-> "#1783D6", fg |-> "white", hover |-> "#005CBF", click |-> "#0050A4", label_fg |-> "white", label_bg |-> "#0070D7"]

BuiltinNames == {Steam, Dark, Nintendo, PlayStation, Xbox, Ubisoft, Blizzard}

\* get_default_themes()
get_default_themes ==
    [n \in BuiltinNames |->
        CASE n = Steam -> SteamColors
          [] n = Dark -> DarkColors
          [] n = Nintendo -> NintendoColors
          [] n = PlayStation -> PlayStationColors
          [] n = Xbox -> XboxColors
          [] n = Ubisoft -> UbisoftColors
          [] n = Blizzard -> BlizzardColors]

\* The content of a file of the preference store: absent, unreadable (open
\* raises), or text.  themes.json is absent, text that is no JSON, a JSON
\* array, or a JSON object of theme records.
AbsentFile == [kind |-> "absent", text |-> << >>]
UnreadableFile == [kind |-> "unreadable", text |-> << >>]
TextFile(t) == [kind |-> "text", text |-> t]

\* open(path, 'w'); f.write(text), inside try/except Exception
WriteText(file, t) == IF file.kind = "unreadable" THEN file ELSE TextFile(t)

AbsentThemes == [kind |-> "absent", obj |-> << >>, arr |-> << >>]
InvalidThemes == [kind |-> "invalid", obj |-> << >>, arr |-> << >>]
ArrayThemes(a) == [kind |-> "array", obj |-> << >>, arr |-> a]
ObjectThemes(m) == [kind |-> "object", obj |-> m, arr |-> << >>]

\* What json.load returned: a dict or a list.
PyDict(m) == [type |-> "dict", dict |-> m, list |-> << >>]
PyList(a) == [type |-> "list", dict |-> << >>, list |-> a]

\* load_themes(): {} when the file is absent or no JSON, else what json.load returns
load_themes(file) ==
    CASE file.kind = "object" -> PyDict(file.obj)
      [] file.kind = "array"  -> PyList(file.arr)
      [] OTHER                -> PyDict(<< >>)

\* save_themes(themes): json.dump of a dict
save_themes(themes) == ObjectThemes(themes)

\* An update the wrong way round: the keys of base win.
OverlayBaseWins(base, other) ==
    [n \in DOMAIN base \cup DOMAIN other |->
        IF n \in DOMAIN base THEN base[n] ELSE other[n]]

\* dict.update(other) for dicts: the keys of other win
Overlay(base, other) ==
    [n \in DOMAIN base \cup DOMAIN other |->
        IF n \in DOMAIN other THEN other[n] ELSE base[n]]

\* themes.update(user_themes): a dict is overlaid; a list must hold key/value
\* pairs, and a list holding a number raises TypeError
UpdateRaises(user_themes) ==
    user_themes.type = "list" /\ user_themes.list # << >>

\* get_all_themes(): raises, or returns the combined dict
get_all_themes(file) ==
    LET user_themes == load_themes(file)
    IN  IF UpdateRaises(user_themes)
        THEN [raised |-> TRUE, themes |-> << >>]
        ELSE [raised |-> FALSE,
              themes |-> Overlay(get_default_themes, user_themes.dict)]

\* save_last_theme(theme_name)
save_last_theme(cache, theme_name) == WriteText(cache, theme_name)

\* load_last_theme(): 'Steam' without a readable cache file
load_last_theme(cache) ==
    IF cache.kind = "text" THEN Strip(cache.text) ELSE Steam

\* themes.get(name, get_default_themes()['Steam'])
ThemeOrSteam(themes, name) ==
    IF name \in DOMAIN themes THEN themes[name] ELSE get_default_themes[Steam]

(***************************************************************************)
(* Cache Logic.                                                            *)
(***************************************************************************)
\* save_last_directory(directory_path)
save_last_directory(cache, directory_path) == WriteText(cache, directory_path)

\* A load that trusts the cache: the path is returned without the isdir check.
load_last_directory_unchecked(cache, fs) ==
    IF cache.kind = "text" THEN <<Strip(cache.text)>> ELSE << >>

\* load_last_directory(): << >> (None) or <<directory_path>>
load_last_directory(cache, fs) ==
    IF cache.kind = "text" /\ IsDirectory(fs, Strip(cache.text))
    THEN <<Strip(cache.text)>>
    ELSE << >>

(***************************************************************************)
(* The scanner study: a tree is laid out below the start directory, entry  *)
(* by entry, and then both scanners are applied to it.                     *)
(***************************************************************************)
\* A second start directory, whose name ends with a space.
SpacedRoot == <<"/", "h", " ">>

StartPaths == {ScanRoot, SpacedRoot}

\* The state of the launcher while the scanner study runs: not started.
ClosedEditor == [open |-> FALSE, entry |-> << >>, colors |-> << >>, listbox |-> {}]
NoWindow ==
    [label |-> << >>, current_theme_name |-> << >>, current_theme |-> << >>,
     menu |-> {}, buttons |-> << >>, map |-> << >>]
NoHandler == [op |-> "none", dir |-> << >>, name |-> << >>]

\* No second launcher instance is at work.
NoInstances == << >>

AppOff ==
    /\ phase = "off"
    /\ gui = NoWindow
    /\ editor = ClosedEditor
    /\ msgs = {}
    /\ escaped = FALSE
    /\ last = NoHandler
    /\ saved = << >>
    /\ spawned = << >>
    /\ instances = NoInstances

Entries(tree) == DOMAIN tree \ {<< >>}

InitScan ==
    /\ world = [p \in StartPaths |-> IF p = ScanRoot THEN RootOnly ELSE EmptyTree]
    /\ dirCache = AbsentFile
    /\ themeCache = AbsentFile
    /\ themeFile = AbsentThemes
    /\ AppOff
    /\ order \in Orders
    /\ pc = "build"
    /\ plainMap = << >>
    /\ iconMap = << >>
    /\ scanMsgs = {}

\* the environment creates a directory or a file in an existing directory
Create(parent, name, kind) ==
    /\ pc = "build"
    /\ IsDir(world[ScanRoot], parent)
    /\ Len(parent) < MaxDepth
    /\ ~Exists(world[ScanRoot], Join(parent, name))
    /\ Cardinality(Entries(world[ScanRoot])) < MaxEntries
    /\ world' = [world EXCEPT ![ScanRoot] =
                    [p \in DOMAIN @ \cup {Join(parent, name)} |->
                        IF p = Join(parent, name) THEN kind ELSE @[p]]]
    /\ UNCHANGED <<order, pc, plainMap, iconMap, scanMsgs, appVars>>

Mkdir == \E parent \in DOMAIN world[ScanRoot], name \in DirNames : Create(parent, name, "dir")

Touch == \E parent \in DOMAIN world[ScanRoot], name \in FileNames : Create(parent, name, "file")

\* the environment removes the start directory
RemoveRoot ==
    /\ pc = "build"
    /\ world[ScanRoot] = RootOnly
    /\ world' = [world EXCEPT ![ScanRoot] = EmptyTree]
    /\ UNCHANGED <<order, pc, plainMap, iconMap, scanMsgs, appVars>>

ScanPlain ==
    /\ pc = "build"
    /\ plainMap' = plain_get_first_level_folders_with_executables(
                       world, ScanRoot, common_extensions, order)
    /\ scanMsgs' = ScanMessages(world, ScanRoot)
    /\ pc' = "plain"
    /\ UNCHANGED <<world, order, iconMap, appVars>>

ScanIcon ==
    /\ pc = "plain"
    /\ iconMap' = get_first_level_folders_with_executables(
                      world, ScanRoot, common_extensions, order)
    /\ scanMsgs' = scanMsgs \cup ScanMessages(world, ScanRoot)
    /\ pc' = "scanned"
    /\ UNCHANGED <<world, order, plainMap, appVars>>

NextScan == Mkdir \/ Touch \/ RemoveRoot \/ ScanPlain \/ ScanIcon

SpecScan == InitScan /\ [][NextScan]_vars

(***************************************************************************)
(* GUI Logic, fnfguiV1.0.py.                                               *)
(***************************************************************************)
\* current_dir_label's text before a directory is selected
NoDirectoryText == <<"N", "o", " ", "d", "i", "r", "e", "c", "t", "o", "r", "y", " ", "s", "e", "l", "e", "c", "t", "e", "d", ".">>

\* A button frame that is not cleared: the new buttons are packed under the old ones.
build_gui_buttons_kept(parent_frame, folder_executable_map) ==
    parent_frame \o
        [i \in 1..Len(Sorted(DOMAIN folder_executable_map)) |->
            [text |-> Sorted(DOMAIN folder_executable_map)[i],
             exe  |-> folder_executable_map[Sorted(DOMAIN folder_executable_map)[i]].exe,
             icon |-> folder_executable_map[Sorted(DOMAIN folder_executable_map)[i]].icon]]

\* build_gui_buttons: every widget of parent_frame is destroyed, then one button
\* per folder is packed, in sorted(folder_executable_map.keys()) order; an empty
\* map leaves only the "No executable-containing folders found." label
build_gui_buttons(parent_frame, folder_executable_map) ==
    LET sorted_folder_names == Sorted(DOMAIN folder_executable_map)
    IN  [i \in 1..Len(sorted_folder_names) |->
            [text |-> sorted_folder_names[i],
             exe  |-> folder_executable_map[sorted_folder_names[i]].exe,
             icon |-> folder_executable_map[sorted_folder_names[i]].icon]]

\* `if theme_name:` / `directory if directory else ...`: an argument that is
\* neither None nor the empty string
Given(arg) == arg # << >> /\ arg[1] # << >>

\* update_gui(theme_name, directory) on window g: the window afterwards, the
\* last-directory cache afterwards, and whether get_all_themes raised
update_gui(g, cache, fs, ord, file, theme_name, directory) ==
    LET all == get_all_themes(file)
    IN  IF Given(theme_name) /\ all.raised
        THEN [gui |-> [g EXCEPT !.current_theme_name = theme_name[1]],
              dirCache |-> cache, raised |-> TRUE, start |-> << >>]
        ELSE LET themed ==
                     IF Given(theme_name)
                     THEN [g EXCEPT !.current_theme_name = theme_name[1],
                                    !.current_theme = ThemeOrSteam(all.themes, theme_name[1]),
                                    !.menu = DOMAIN all.themes]
                     ELSE g
                 start_directory == IF Given(directory) THEN directory[1] ELSE g.label
                 valid == start_directory # << >> /\ IsDirectory(fs, start_directory)
                 folder_executable_map ==
                     IF valid
                     THEN get_first_level_folders_with_executables(
                              fs, start_directory, common_extensions, ord)
                     ELSE << >>
             IN  [gui |-> [themed EXCEPT
                              !.label = IF valid THEN start_directory ELSE @,
                              !.map = folder_executable_map,
                              !.buttons = build_gui_buttons(@, folder_executable_map)],
                  dirCache |-> IF valid THEN save_last_directory(cache, start_directory)
                               ELSE cache,
                  raised |-> FALSE,
                  start |-> <<start_directory>>]

\* The window run_launcher builds before the initial directory setup.
FirstWindow(cache, file) ==
    LET all == get_all_themes(file)
    IN  [label |-> NoDirectoryText,
         current_theme_name |-> load_last_theme(cache),
         current_theme |-> ThemeOrSteam(all.themes, load_last_theme(cache)),
         menu |-> DOMAIN all.themes,
         buttons |-> << >>,
         map |-> << >>]

Handler(op, dir, name) == [op |-> op, dir |-> dir, name |-> name]

\* A start path that is never a directory, which a user can still type in the dialog.
GoneRoot == <<"/", "h">>

\* What filedialog.askdirectory can return: a path, or "" when cancelled.
DialogChoices == StartPaths \cup {GoneRoot, << >>}

\* The theme names the user picks in the dropdown and the listbox, and types
\* in the editor's name entry.
MyName == <<"M", "y", " ">>
SelectableNames == {Steam, MyName}
TypedNames == {Steam, MyName, << >>}

\* run_launcher(): the session starts; new_dir is what the first-run dialog returns
Start(new_dir) ==
    /\ phase # "running"
    /\ editor' = ClosedEditor
    /\ UNCHANGED <<world, order, scanVars, spawned, instances, themeCache, themeFile, saved>>
    /\ IF get_all_themes(themeFile).raised
       THEN /\ phase' = "crashed"
            /\ escaped' = TRUE
            /\ msgs' = {}
            /\ gui' = NoWindow
            /\ last' = Handler("start", << >>, << >>)
            /\ UNCHANGED dirCache
       ELSE LET g0 == FirstWindow(themeCache, themeFile)
                cached_directory == load_last_directory(dirCache, world)
                directory == IF cached_directory # << >> THEN cached_directory
                             ELSE <<new_dir>>
                u == update_gui(g0, dirCache, world, order, themeFile, << >>, directory)
            IN  /\ escaped' = FALSE
                /\ IF Given(directory)
                   THEN /\ phase' = "running"
                        /\ gui' = u.gui
                        /\ dirCache' = u.dirCache
                        /\ msgs' = {}
                        /\ last' = Handler("start", u.start, << >>)
                   ELSE /\ phase' = "cancelled"
                        /\ gui' = NoWindow
                        /\ msgs' = {"Cancelled: Directory selection cancelled."}
                        /\ last' = Handler("start", << >>, << >>)
                        /\ UNCHANGED dirCache

\* browse_directory(): the dialog returns new_dir
Browse(new_dir) ==
    /\ phase = "running"
    /\ new_dir # << >>
    /\ LET u == update_gui(gui, dirCache, world, order, themeFile, << >>, <<new_dir>>)
       IN  /\ gui' = u.gui
           /\ dirCache' = u.dirCache
           /\ escaped' = u.raised
           /\ last' = Handler("browse", u.start, << >>)
    /\ msgs' = {}
    /\ UNCHANGED <<world, order, scanVars, spawned, instances, themeCache, themeFile, phase, editor, saved>>

\* refresh_directory()
Refresh ==
    /\ phase = "running"
    /\ IF IsDirectory(world, gui.label)
       THEN LET u == update_gui(gui, dirCache, world, order, themeFile, << >>, <<gui.label>>)
            IN  /\ gui' = u.gui
                /\ dirCache' = u.dirCache
                /\ escaped' = u.raised
                /\ msgs' = {}
                /\ last' = Handler("refresh", u.start, << >>)
       ELSE /\ msgs' = {"No Directory: Please select a valid directory first."}
            /\ escaped' = FALSE
            /\ last' = Handler("refresh", << >>, << >>)
            /\ UNCHANGED <<gui, dirCache>>
    /\ UNCHANGED <<world, order, scanVars, spawned, instances, themeCache, themeFile, phase, editor, saved>>

\* The history once the user selects a theme by another handler.
Deselected(history) ==
    IF history = << >> THEN history ELSE <<[history[1] EXCEPT !.selected = FALSE]>>

\* the theme dropdown's command: update_gui(theme_name=theme_var.get())
PickTheme(name) ==
    /\ phase = "running"
    /\ name \in gui.menu
    /\ LET u == update_gui(gui, dirCache, world, order, themeFile, <<name>>, << >>)
       IN  /\ gui' = u.gui
           /\ dirCache' = u.dirCache
           /\ escaped' = u.raised
           /\ last' = Handler("pick", u.start, name)
    /\ msgs' = {}
    /\ saved' = Deselected(saved)
    /\ UNCHANGED <<world, order, scanVars, spawned, instances, themeCache, themeFile, phase, editor>>

\* on_close(): WM_DELETE_WINDOW
OnClose ==
    /\ phase = "running"
    /\ themeCache' = save_last_theme(themeCache, gui.current_theme_name)
    /\ phase' = "closed"
    /\ editor' = ClosedEditor
    /\ msgs' = {}
    /\ escaped' = FALSE
    /\ last' = Handler("close", << >>, gui.current_theme_name)
    /\ UNCHANGED <<world, order, scanVars, spawned, instances, dirCache, themeFile, gui, saved>>

(***************************************************************************)
(* Launching: the command of a folder's button.                            *)
(***************************************************************************)
\* The operating systems the launcher runs on: os.name.
OsNames == {"posix", "nt"}

NotFoundMessage == "Error: Executable not found at: executable_path"
GenericMessage == "Error: An error occurred: e"

\* os.path.dirname(executable_path)
Dirname(path) == [base |-> path.base, rel |-> SubSeq(path.rel, 1, Len(path.rel) - 1)]

\* subprocess.Popen(executable_path, cwd=executable_dir, shell=True): the shell
\* (/bin/sh -c, cmd.exe /c) is started in executable_dir and is given the path
\* as its command line.  Popen raises only when the shell cannot be started in
\* executable_dir: FileNotFoundError for a missing cwd on posix,
\* NotADirectoryError for a cwd that is a file, and for either on nt.  A missing
\* executable is the shell's failure, after Popen has returned.
Popen(fs, os_name, executable_path) ==
    LET tree == TreeAt(fs, executable_path.base)
        executable_dir == Dirname(executable_path).rel
    IN  IF IsDir(tree, executable_dir)
        THEN [raised |-> "",
              started |-> IF IsFile(tree, executable_path.rel)
                          THEN <<"shell", "executable">> ELSE <<"shell">>]
        ELSE IF os_name = "posix"
                  /\ \A k \in 0..Len(executable_dir) :
                         ~IsFile(tree, SubSeq(executable_dir, 1, k))
             THEN [raised |-> "FileNotFoundError", started |-> << >>]
             ELSE [raised |-> "NotADirectoryError", started |-> << >>]

\* launch_executable() of the button of folder_name
Launch(folder_name, os_name) ==
    /\ phase = "running"
    /\ folder_name \in DOMAIN gui.map
    /\ LET p == Popen(world, os_name, gui.map[folder_name].exe)
       IN  /\ spawned' = p.started
           /\ msgs' = CASE p.raised = "" -> {}
                        [] p.raised = "FileNotFoundError" -> {NotFoundMessage}
                        [] OTHER -> {GenericMessage}
    /\ escaped' = FALSE
    /\ last' = Handler("launch", <<gui.map[folder_name].exe.base>>, folder_name)
    /\ UNCHANGED <<world, order, scanVars, instances, fileVars, phase, gui, editor, saved>>

(***************************************************************************)
(* The theme editor window.                                                *)
(***************************************************************************)
\* create_theme_editor_window(root, update_gui): the "Edit Theme" button
OpenEditor ==
    /\ phase = "running"
    /\ ~editor.open
    /\ LET all == get_all_themes(themeFile)
           name == load_last_theme(themeCache)
       IN  IF all.raised \/ name \notin DOMAIN all.themes
           THEN /\ escaped' = TRUE
                /\ UNCHANGED editor
           ELSE /\ escaped' = FALSE
                /\ editor' = [open |-> TRUE, entry |-> name,
                              colors |-> all.themes[name],
                              listbox |-> DOMAIN all.themes]
    /\ msgs' = {}
    /\ last' = Handler("edit", << >>, load_last_theme(themeCache))
    /\ UNCHANGED <<world, order, scanVars, spawned, instances, fileVars, phase, gui, saved>>

\* The colours and the editable keys the user picks from in the colour chooser.
PickedColors == {"#101010"}
PickedKeys == {"bg_dark"}

\* choose_color(color_key): the chooser returns color
ChooseColor(color_key, color) ==
    /\ phase = "running"
    /\ editor.open
    /\ editor.colors[color_key] # color
    /\ editor' = [editor EXCEPT !.colors[color_key] = color]
    /\ msgs' = {}
    /\ escaped' = FALSE
    /\ last' = Handler("color", << >>, << >>)
    /\ UNCHANGED <<world, order, scanVars, spawned, instances, fileVars, phase, gui, saved>>

\* new_theme of save_theme: the editor's colours, label colours made consistent
NewTheme(color_vars) ==
    [color_vars EXCEPT !.label_bg = color_vars.bg_dark, !.label_fg = color_vars.fg]

\* An assignment that keeps an existing key: dict.setdefault(new_theme_name, new_theme).
WithThemeKept(themes, name, colors) ==
    [n \in DOMAIN themes \cup {name} |-> IF n \in DOMAIN themes THEN themes[n] ELSE colors]

\* all_themes[new_theme_name] = new_theme
WithTheme(themes, name, colors) ==
    [n \in DOMAIN themes \cup {name} |-> IF n = name THEN colors ELSE themes[n]]

\* save_theme(): "Save & Apply", with new_theme_name in the name entry
SaveTheme(new_theme_name) ==
    /\ phase = "running"
    /\ editor.open
    /\ IF new_theme_name = << >>
       THEN /\ msgs' = {"Error: Theme name cannot be empty."}
            /\ escaped' = FALSE
            /\ UNCHANGED <<fileVars, gui, editor, saved>>
       ELSE LET all == get_all_themes(themeFile)
                written == save_themes(WithTheme(all.themes, new_theme_name,
                                                 NewTheme(editor.colors)))
                u == update_gui(gui, dirCache, world, order, written,
                                <<new_theme_name>>, << >>)
            IN  IF all.raised
                THEN /\ escaped' = TRUE
                     /\ msgs' = {}
                     /\ UNCHANGED <<fileVars, gui, editor, saved>>
                ELSE /\ themeFile' = written
                     /\ themeCache' = save_last_theme(themeCache, new_theme_name)
                     /\ gui' = u.gui
                     /\ dirCache' = u.dirCache
                     /\ editor' = ClosedEditor
                     /\ escaped' = FALSE
                     /\ msgs' = {"Success: Theme saved and applied!"}
                     /\ saved' = IF new_theme_name \in BuiltinNames
                                 THEN <<[name |-> new_theme_name,
                                         colors |-> NewTheme(editor.colors),
                                         selected |-> TRUE]>>
                                 ELSE Deselected(saved)
    /\ last' = Handler("save", << >>, new_theme_name)
    /\ UNCHANGED <<world, order, scanVars, spawned, instances, phase>>

\* apply_selected_theme(): "Apply", with theme_name active in the listbox
ApplySelectedTheme(theme_name) ==
    /\ phase = "running"
    /\ editor.open
    /\ theme_name \in editor.listbox
    /\ LET all == get_all_themes(themeFile)
           u == update_gui(gui, dirCache, world, order, themeFile, <<theme_name>>, << >>)
       IN  IF all.raised
           THEN /\ escaped' = TRUE
                /\ UNCHANGED <<dirCache, themeCache, gui, editor, saved>>
           ELSE /\ escaped' = FALSE
                /\ IF theme_name \in DOMAIN all.themes
                   THEN /\ gui' = u.gui
                        /\ dirCache' = u.dirCache
                        /\ themeCache' = save_last_theme(themeCache, theme_name)
                        /\ editor' = ClosedEditor
                        /\ saved' = Deselected(saved)
                   ELSE UNCHANGED <<dirCache, themeCache, gui, editor, saved>>
    /\ msgs' = {}
    /\ last' = Handler("apply", << >>, theme_name)
    /\ UNCHANGED <<world, order, scanVars, spawned, instances, themeFile, phase>>

\* A delete that clears the dict: themes.clear().
WithoutAnyTheme(themes, name) == [n \in {} |-> themes[n]]

\* del themes[theme_name]
WithoutTheme(themes, name) == [n \in DOMAIN themes \ {name} |-> themes[n]]

\* delete_selected_theme(): "Delete", with theme_name active in the listbox and
\* the user's answer to the askyesno box
DeleteSelectedTheme(theme_name, yes) ==
    /\ phase = "running"
    /\ editor.open
    /\ theme_name \in editor.listbox
    /\ LET themes == load_themes(themeFile)
       IN  IF themes.type = "dict" /\ theme_name \in DOMAIN themes.dict /\ yes
           THEN /\ themeFile' = save_themes(WithoutTheme(themes.dict, theme_name))
                /\ editor' = [editor EXCEPT !.listbox = @ \ {theme_name}]
                /\ saved' = IF saved # << >> /\ saved[1].name = theme_name
                            THEN << >> ELSE saved
           ELSE UNCHANGED <<themeFile, editor, saved>>
    /\ msgs' = {}
    /\ escaped' = FALSE
    /\ last' = Handler(IF yes THEN "delete" ELSE "delete-no", << >>, theme_name)
    /\ UNCHANGED <<world, order, scanVars, spawned, instances, dirCache, themeCache, phase, gui>>

\* the editor window is closed by its title bar
CloseEditor ==
    /\ phase = "running"
    /\ editor.open
    /\ editor' = ClosedEditor
    /\ msgs' = {}
    /\ escaped' = FALSE
    /\ last' = Handler("close-editor", << >>, << >>)
    /\ UNCHANGED <<world, order, scanVars, spawned, instances, fileVars, phase, gui, saved>>

(***************************************************************************)
(* The environment of the launcher: start directories appear, change and   *)
(* vanish.                                                                 *)
(***************************************************************************)
PlainFile == [p \in {<< >>} |-> "file"]

\* Folders A (a.exe) and s (B.EXE beside icon.png).
LayoutOne ==
    [p \in {<< >>, <<NameA>>, <<NameA, NameExe>>, <<NameSub>>, <<NameSub, NameEXE>>,
            <<NameSub, icon_file_names[2]>>} |->
        IF p \in {<< >>, <<NameA>>, <<NameSub>>} THEN "dir" ELSE "file"]

\* Folder A with B.EXE below a subfolder, and folder s without an executable.
LayoutTwo ==
    [p \in {<< >>, <<NameA>>, <<NameA, NameSub>>, <<NameA, NameSub, NameEXE>>,
            <<NameSub>>, <<NameSub, icon_file_names[1]>>} |->
        IF p \in {<< >>, <<NameA>>, <<NameA, NameSub>>, <<NameSub>>} THEN "dir" ELSE "file"]

TreeChoices(path) ==
    IF path = ScanRoot THEN {EmptyTree, PlainFile, LayoutOne, LayoutTwo}
    ELSE {EmptyTree, LayoutOne}

EnvSetDirectory(path, tree) ==
    /\ tree # world[path]
    /\ world' = [world EXCEPT ![path] = tree]
    /\ last' = Handler("env", <<path>>, << >>)
    /\ UNCHANGED <<order, scanVars, spawned, instances, fileVars, phase, gui, editor, msgs, escaped, saved>>

(***************************************************************************)
(* The launcher: any content of the three preference files, then sessions  *)
(* of user actions.                                                        *)
(***************************************************************************)
CustomColors == [SteamColors EXCEPT !.bg = "#202020"]

InitialDirCaches == {AbsentFile, UnreadableFile, TextFile(ScanRoot), TextFile(SpacedRoot)}
InitialThemeCaches == {AbsentFile, TextFile(MyName)}
InitialThemeFiles ==
    {AbsentThemes, InvalidThemes, ArrayThemes(<<1>>),
     ObjectThemes([n \in {Steam} |-> CustomColors])}

ScannerIdle ==
    /\ pc = "build"
    /\ plainMap = << >>
    /\ iconMap = << >>
    /\ scanMsgs = {}

Init ==
    /\ world = [p \in StartPaths |-> IF p = ScanRoot THEN LayoutOne ELSE EmptyTree]
    /\ order \in Orders
    /\ ScannerIdle
    /\ dirCache \in InitialDirCaches
    /\ themeCache \in InitialThemeCaches
    /\ themeFile \in InitialThemeFiles
    /\ AppOff

\* The main window's handlers.
WindowStep ==
    \/ \E new_dir \in DialogChoices : Start(new_dir)
    \/ \E name \in SelectableNames : PickTheme(name)
    \/ OnClose

\* The directory handlers, the launch buttons and the environment's changes to the start directories.
DirectoryStep ==
    \/ \E new_dir \in DialogChoices : Browse(new_dir)
    \/ Refresh
    \/ \E folder_name \in DirNames, os_name \in OsNames : Launch(folder_name, os_name)
    \/ \E path \in StartPaths : \E tree \in TreeChoices(path) : EnvSetDirectory(path, tree)

\* The theme editor's handlers.
EditorStep ==
    \/ OpenEditor
    \/ \E k \in PickedKeys, c \in PickedColors : ChooseColor(k, c)
    \/ \E name \in TypedNames \cup {editor.entry} : SaveTheme(name)
    \/ \E name \in SelectableNames : ApplySelectedTheme(name)
    \/ \E name \in SelectableNames, yes \in BOOLEAN : DeleteSelectedTheme(name, yes)
    \/ CloseEditor

Next == WindowStep \/ DirectoryStep \/ EditorStep

Spec == Init /\ [][Next]_vars

(***************************************************************************)
(* The directory study: no user themes, any last-directory cache; the      *)
(* window's and the directory handlers run while the start directories     *)
(* change under them.                                                      *)
(***************************************************************************)
InitDirs ==
    /\ world = [p \in StartPaths |-> IF p = ScanRoot THEN LayoutOne ELSE EmptyTree]
    /\ order \in Orders
    /\ ScannerIdle
    /\ dirCache \in InitialDirCaches
    /\ themeCache = AbsentFile
    /\ themeFile = AbsentThemes
    /\ AppOff

NextDirs == WindowStep \/ DirectoryStep

SpecDirs == InitDirs /\ [][NextDirs]_vars

(***************************************************************************)
(* The theme study: any theme file and last-theme cache, a start directory *)
(* that stays as it is; the window's and the editor's handlers run.        *)
(***************************************************************************)
InitThemes ==
    /\ world = [p \in StartPaths |-> IF p = ScanRoot THEN LayoutOne ELSE EmptyTree]
    /\ order = ForwardOrder
    /\ ScannerIdle
    /\ dirCache = TextFile(ScanRoot)
    /\ themeCache \in InitialThemeCaches
    /\ themeFile \in InitialThemeFiles
    /\ AppOff

NextThemes == WindowStep \/ EditorStep

SpecThemes == InitThemes /\ [][NextThemes]_vars

(***************************************************************************)
(* The race study: two launcher instances press Save & Apply in their      *)
(* theme editors at the same time.  save_theme reads themes.json           *)
(* (get_all_themes), and save_themes opens it with mode 'w', which         *)
(* truncates it, and writes the text when the file is closed; nothing      *)
(* locks the file, so the steps of the two instances interleave.  The      *)
(* windows of the two instances are left out: the study follows what each  *)
(* instance reads from and writes to the shared files.                     *)
(***************************************************************************)
Writers == {"a", "b"}

\* A second user theme name, one character shorter than MyName.
OtherName == <<"M", "e">>

\* The names each instance's user types, and the colours in its editor.
RaceNames(w) == IF w = "a" THEN {MyName, Steam} ELSE {OtherName, Steam}
RaceColors(w) == IF w = "a" THEN CustomColors ELSE NewTheme(DarkColors)

IdleWriter == [pc |-> "idle", name |-> << >>, themes |-> << >>]

\* themes.json just after open(THEME_FILE, 'w'): no text, which is no JSON
EmptyThemes == [kind |-> "empty", obj |-> << >>, arr |-> << >>]

RECURSIVE ColorsSize(_, _)
\* The characters of the lines `        "key": "value",` of one theme record.
ColorsSize(colors, keys) ==
    IF keys = {} THEN 0
    ELSE LET key == CHOOSE k \in keys : TRUE
         IN  Len(key) + Len(colors[key]) + 16 + ColorsSize(colors, keys \ {key})

RECURSIVE ThemesSize(_, _)
\* The characters of the entries `    "name": {`, the record's lines, `    },`.
ThemesSize(themes, names) ==
    IF names = {} THEN 0
    ELSE LET name == CHOOSE n \in names : TRUE
         IN  Len(name) + 10 + (ColorsSize(themes[name], DOMAIN themes[name]) - 1) + 7
                 + ThemesSize(themes, names \ {name})

\* The length of the text json.dump(themes, f, indent=4) writes.
JsonSize(themes) ==
    IF DOMAIN themes = {} THEN 2
    ELSE 2 + (ThemesSize(themes, DOMAIN themes) - 1) + 1

\* The file after a text is written from offset 0 and the writer closes: the
\* text replaces what the file held up to its own length, and what another
\* writer put beyond that length since the truncation stays behind it, which
\* makes the whole no JSON.
WrittenFromStart(file, themes) ==
    CASE file.kind \in {"absent", "empty"} -> ObjectThemes(themes)
      [] file.kind = "object" ->
            IF JsonSize(file.obj) > JsonSize(themes) THEN InvalidThemes
            ELSE ObjectThemes(themes)
      [] OTHER -> InvalidThemes

\* save_theme of instance w, first part: new_theme_name is read from the entry
\* and all_themes = get_all_themes() with all_themes[new_theme_name] = new_theme
RaceRead(w, new_theme_name) ==
    /\ instances[w].pc = "idle"
    /\ ~get_all_themes(themeFile).raised
    /\ instances' = [instances EXCEPT ![w] =
            [pc |-> "read", name |-> new_theme_name,
             themes |-> WithTheme(get_all_themes(themeFile).themes, new_theme_name,
                                  NewTheme(RaceColors(w)))]]
    /\ last' = Handler("read", << >>, <<w>>)
    /\ UNCHANGED <<world, order, scanVars, spawned, fileVars, phase, gui, editor, msgs, escaped, saved>>

\* save_themes of instance w: open(THEME_FILE, 'w')
RaceOpen(w) ==
    /\ instances[w].pc = "read"
    /\ themeFile' = EmptyThemes
    /\ instances' = [instances EXCEPT ![w].pc = "open"]
    /\ last' = Handler("open", << >>, <<w>>)
    /\ UNCHANGED <<world, order, scanVars, spawned, dirCache, themeCache, phase, gui, editor, msgs, escaped, saved>>

\* save_themes of instance w: json.dump and the close that flushes the text;
\* then the rest of save_theme, save_last_theme(new_theme_name)
RaceWrite(w) ==
    /\ instances[w].pc = "open"
    /\ themeFile' = WrittenFromStart(themeFile, instances[w].themes)
    /\ themeCache' = save_last_theme(themeCache, instances[w].name)
    /\ instances' = [instances EXCEPT ![w].pc = "idle"]
    /\ last' = Handler("write", << >>, <<w>>)
    /\ UNCHANGED <<world, order, scanVars, spawned, dirCache, phase, gui, editor, msgs, escaped, saved>>

InitRace ==
    /\ world = [p \in StartPaths |-> IF p = ScanRoot THEN LayoutOne ELSE EmptyTree]
    /\ order = ForwardOrder
    /\ ScannerIdle
    /\ dirCache = TextFile(ScanRoot)
    /\ themeCache = AbsentFile
    /\ themeFile \in {AbsentThemes, InvalidThemes, ObjectThemes([n \in {Steam} |-> CustomColors])}
    /\ phase = "off"
    /\ gui = NoWindow
    /\ editor = ClosedEditor
    /\ msgs = {}
    /\ escaped = FALSE
    /\ last = NoHandler
    /\ saved = << >>
    /\ spawned = << >>
    /\ instances = [w \in Writers |-> IdleWriter]

NextRace ==
    \/ \E w \in Writers : \E name \in RaceNames(w) : RaceRead(w, name)
    \/ \E w \in Writers : RaceOpen(w)
    \/ \E w \in Writers : RaceWrite(w)

SpecRace == InitRace /\ [][NextRace]_vars

(***************************************************************************)
(* Properties of the scanners.                                             *)
(***************************************************************************)
ScanTree == world[ScanRoot]

DotExe == <<".", "e", "x", "e">>

\* The files at any depth below first-level child n whose lowercased name ends with ".exe".
ExecutablesBelow(tree, n) ==
    {p \in DOMAIN tree :
        /\ Len(p) >= 2
        /\ p[1] = n
        /\ tree[p] = "file"
        /\ EndsWith(Lower(p[Len(p)]), DotExe)}

\* The directory holding the entry at path p.
Parent(p) == SubSeq(p, 1, Len(p) - 1)

\* The position of a name in the enumeration order.
Rank(ord, n) == CHOOSE i \in 1..Len(ord) : ord[i] = n

IsPrefix(d, e) == Len(d) <= Len(e) /\ SubSeq(e, 1, Len(d)) = d

\* Directory d is listed before directory e by a top-down walk: d is an ancestor
\* of e, or they part at a component that the enumeration order puts first in d.
DirBefore(ord, d, e) ==
    \/ (IsPrefix(d, e) /\ d # e)
    \/ \E i \in 1..Len(d) :
          /\ i <= Len(e)
          /\ SubSeq(d, 1, i - 1) = SubSeq(e, 1, i - 1)
          /\ d[i] # e[i]
          /\ Rank(ord, d[i]) < Rank(ord, e[i])

\* File p is met before file q by the walk.
FileBefore(ord, p, q) ==
    \/ (Parent(p) = Parent(q) /\ Rank(ord, p[Len(p)]) < Rank(ord, q[Len(q)]))
    \/ (Parent(p) # Parent(q) /\ DirBefore(ord, Parent(p), Parent(q)))

\* C1: for a start directory that exists, each scanner returns an entry for an
\* immediate child name if and only if that child is a directory whose subtree
\* holds, at any depth, a file whose lowercased name ends with ".exe"; plain-file
\* children and child directories without such a file get no entry.
C1_EntryIffExecutableBelow ==
    IsDir(ScanTree, << >>) =>
        /\ pc \in {"plain", "scanned"} =>
              /\ DOMAIN plainMap \subseteq Names
              /\ \A n \in Names :
                    n \in DOMAIN plainMap <=>
                        (IsDir(ScanTree, <<n>>) /\ ExecutablesBelow(ScanTree, n) # {})
        /\ pc = "scanned" =>
              /\ DOMAIN iconMap \subseteq Names
              /\ \A n \in Names :
                    n \in DOMAIN iconMap <=>
                        (IsDir(ScanTree, <<n>>) /\ ExecutablesBelow(ScanTree, n) # {})

\* C1 witness: a scan that found an executable two directories below a child,
\* and passed over a plain-file child that is itself named like an executable.
C1_Witness ==
    /\ pc = "scanned"
    /\ \E n \in DOMAIN iconMap : Len(iconMap[n].exe.rel) = 3 /\ n \in DOMAIN plainMap
    /\ \E m \in Names :
          /\ IsFile(ScanTree, <<m>>)
          /\ EndsWith(Lower(m), DotExe)
          /\ m \notin DOMAIN iconMap
          /\ m \notin DOMAIN plainMap

\* C2: when a child's subtree holds several files ending in ".exe", each scanner
\* yields one executable path for the child, and it is the file the walk meets
\* first: a matching file of the subtree that every other matching file of the
\* subtree comes after in the traversal order.
C2_FirstInTraversalOrder ==
    /\ pc \in {"plain", "scanned"} =>
          \A n \in DOMAIN plainMap :
              LET p == plainMap[n].rel
              IN  /\ p \in ExecutablesBelow(ScanTree, n)
                  /\ \A q \in ExecutablesBelow(ScanTree, n) \ {p} : FileBefore(order, p, q)
    /\ pc = "scanned" =>
          \A n \in DOMAIN iconMap :
              LET p == iconMap[n].exe.rel
              IN  /\ p \in ExecutablesBelow(ScanTree, n)
                  /\ \A q \in ExecutablesBelow(ScanTree, n) \ {p} : FileBefore(order, p, q)

\* C2 witness: a scanned child with three matching files, in two directories.
C2_Witness ==
    /\ pc = "scanned"
    /\ \E n \in DOMAIN plainMap :
          /\ n \in DOMAIN iconMap
          /\ Cardinality(ExecutablesBelow(ScanTree, n)) >= 2
          /\ \E p, q \in ExecutablesBelow(ScanTree, n) : Parent(p) # Parent(q)

\* C3: in the icon-aware scanner an entry's icon is the first of icon.ico,
\* icon.png, icon.gif that exists in the directory of the chosen executable, and
\* is absent when none of the three exists there; an icon in any other directory
\* is never returned.
C3_IconBesideExecutable ==
    pc = "scanned" =>
        \A n \in DOMAIN iconMap :
            LET dir  == Parent(iconMap[n].exe.rel)
                icon == iconMap[n].icon
                there(k) == Exists(ScanTree, Append(dir, icon_file_names[k]))
            IN  /\ (icon = << >>) <=> (\A k \in 1..3 : ~there(k))
                /\ icon # << >> =>
                      \E k \in 1..3 :
                          /\ icon[1].rel = Append(dir, icon_file_names[k])
                          /\ icon[1].base = ScanRoot
                          /\ there(k)
                          /\ \A j \in 1..(k - 1) : ~there(j)

\* C3 witness: two of the icon names exist beside the executable.
C3_Witness ==
    /\ pc = "scanned"
    /\ \E n \in DOMAIN iconMap :
          /\ iconMap[n].icon # << >>
          /\ Cardinality({k \in 1..3 :
                 Exists(ScanTree, Append(Parent(iconMap[n].exe.rel), icon_file_names[k]))}) >= 2

\* C18: the two scanner versions agree: for every layout and the same traversal
\* order the icon-aware scanner returns the same set of folder names as the
\* plain scanner, and for each folder the executable path of its (executable,
\* icon) pair is the path the plain scanner returns.
C18_ScannersAgree ==
    pc = "scanned" =>
        /\ DOMAIN iconMap = DOMAIN plainMap
        /\ \A n \in DOMAIN iconMap : iconMap[n].exe = plainMap[n]

\* C18 witness: both scanners ran, in descending enumeration order, over a
\* folder that holds two executables in one directory with an icon beside them.
C18_Witness ==
    /\ pc = "scanned"
    /\ order = Reverse(ForwardOrder)
    /\ \E n \in DOMAIN iconMap :
          /\ iconMap[n].icon # << >>
          /\ \E p, q \in ExecutablesBelow(ScanTree, n) : p # q /\ Parent(p) = Parent(q)

(***************************************************************************)
(* Properties of the launcher window.                                      *)
(***************************************************************************)
\* The handlers that run update_gui, which rebuilds the button frame.
RescanOps == {"start", "browse", "refresh", "pick", "save", "apply"}

\* The last handler rescanned start directory d (update_gui ran to its end).
Rescanned(d) == last.op \in RescanOps /\ last.dir = <<d>> /\ ~escaped

\* The first-level folders of a start directory that hold an executable.
FoldersWithExecutable(fs, d) ==
    IF ~IsDirectory(fs, d) THEN {}
    ELSE {n \in Names : /\ IsDir(TreeAt(fs, d), <<n>>)
                        /\ ExecutablesBelow(TreeAt(fs, d), n) # {}}

\* C4: after any sequence of rescans (startup, browse, refresh, theme change)
\* the displayed buttons are exactly the entries of the most recent scan, one
\* per folder, in ascending order of folder name whatever order the scan
\* enumerated them in; no button of an earlier scan survives.
C4_ButtonsAreLatestScanSorted ==
    phase = "running" =>
        /\ Len(gui.buttons) = Cardinality(DOMAIN gui.map)
        /\ \A i \in 1..Len(gui.buttons) :
              /\ gui.buttons[i].text \in DOMAIN gui.map
              /\ gui.buttons[i].exe = gui.map[gui.buttons[i].text].exe
        /\ \A i, j \in 1..Len(gui.buttons) :
              i < j => StrLess(gui.buttons[i].text, gui.buttons[j].text)
        /\ \A d \in DialogChoices :
              Rescanned(d) =>
                  {gui.buttons[i].text : i \in 1..Len(gui.buttons)}
                      = FoldersWithExecutable(world, d)

\* C4 witness: a theme change rescanned a directory whose two folders the scan
\* enumerated in descending order.
C4_Witness ==
    /\ phase = "running"
    /\ last.op = "pick"
    /\ order = Reverse(ForwardOrder)
    /\ Len(gui.buttons) = 2

\* C5: whenever a rescan is triggered for a start directory that does not exist
\* or is not a directory, the failure is reported to the user as a message, the
\* scan yields an empty result, and no exception escapes.
C5_InvalidDirectoryReported ==
    \A d \in DialogChoices :
        (phase = "running" /\ last.op \in RescanOps /\ last.dir = <<d>>
            /\ ~IsDirectory(world, d)) =>
                /\ msgs # {}
                /\ gui.buttons = << >>
                /\ ~escaped

\* C6: load_last_directory returns a path only if that path is an existing
\* directory now; with the cache file missing or unreadable, or naming a path
\* that is gone or is no directory, it returns None and never the stale path.
C6_LoadedDirectoryExists ==
    LET loaded == load_last_directory(dirCache, world)
    IN  /\ loaded # << >> =>
              /\ loaded[1] \in DOMAIN world
              /\ << >> \in DOMAIN world[loaded[1]]
              /\ world[loaded[1]][<< >>] = "dir"
              /\ dirCache.kind = "text"
              /\ loaded[1] = Strip(dirCache.text)
        /\ dirCache.kind \in {"absent", "unreadable"} => loaded = << >>
        /\ (dirCache.kind = "text" /\ \A d \in DOMAIN world :
                d = Strip(dirCache.text) => ~IsDir(world[d], << >>))
              => loaded = << >>

\* C6 witness: a session started while the cache named a directory that has
\* vanished; the cached path was not used and the first-run dialog was cancelled.
C6_Witness ==
    /\ last.op = "start"
    /\ phase = "cancelled"
    /\ dirCache = TextFile(ScanRoot)
    /\ ~IsDirectory(world, ScanRoot)
    /\ load_last_directory(dirCache, world) = << >>

(***************************************************************************)
(* Properties of the theme store.                                          *)
(***************************************************************************)
\* C7: for every content of the user theme file (absent, a JSON object, text
\* that is no JSON, JSON that is no object of theme records) loading themes
\* yields a mapping, empty when the content is malformed, and no error reaches
\* the caller that combines it with the built-in themes.
C7_LoadThemesYieldsMapping ==
    /\ load_themes(themeFile).type = "dict"
    /\ themeFile.kind \in {"invalid", "array"} => load_themes(themeFile).dict = << >>
    /\ ~get_all_themes(themeFile).raised

\* C8: in every reachable state the combined theme set that get_all_themes
\* returns contains every built-in theme name, and a name that is both built-in
\* and in the user theme file has the user's colours.
C8_BuiltinsPresentUserWins ==
    LET all == get_all_themes(themeFile)
    IN  ~all.raised =>
            /\ {Steam, Dark, Nintendo, PlayStation, Xbox, Ubisoft, Blizzard}
                   \subseteq DOMAIN all.themes
            /\ \A n \in DOMAIN all.themes :
                  (themeFile.kind = "object" /\ n \in DOMAIN themeFile.obj)
                      => all.themes[n] = themeFile.obj[n]
            /\ (phase = "running" /\ last.op = "pick" /\ last.name \in DOMAIN all.themes)
                  => gui.current_theme = all.themes[last.name]

\* C8 witness: the user picked Steam in the dropdown while the user theme file
\* holds colours for Steam that differ from the built-in ones.
C8_Witness ==
    /\ phase = "running"
    /\ last.op = "pick"
    /\ last.name = Steam
    /\ themeFile.kind = "object"
    /\ Steam \in DOMAIN themeFile.obj
    /\ themeFile.obj[Steam] # SteamColors
    /\ gui.current_theme = themeFile.obj[Steam]

\* get_all_themes()[name] is colors.
ResolvesTo(file, name, colors) ==
    /\ ~get_all_themes(file).raised
    /\ name \in DOMAIN get_all_themes(file).themes
    /\ get_all_themes(file).themes[name] = colors

\* C9 as stated: after the user saves a theme under an existing built-in name,
\* that name resolves to the saved colours for the rest of the session whatever
\* the user does next (short of saving again), and after closing and restarting
\* it still resolves to them and is the theme selected at startup.
C9_SavedBuiltinStaysForGood ==
    [][(saved # << >> /\ last'.op # "save") =>
          /\ ResolvesTo(themeFile', saved[1].name, saved[1].colors)
          /\ (last'.op = "start" /\ phase' = "running")
                => gui'.current_theme_name = saved[1].name]_vars

\* C9, amended: after the user saves a theme under an existing built-in name,
\* that name resolves to the saved colours, in the session and after a restart,
\* until the user deletes that theme or saves under that name again; and while
\* the user has selected no other theme since (dropdown, Apply, Save under
\* another name), it is the theme in effect, also at the startup after a restart.
C9_SavedBuiltinPersists ==
    saved # << >> =>
        /\ ResolvesTo(themeFile, saved[1].name, saved[1].colors)
        /\ (phase = "running" /\ saved[1].selected) =>
              /\ gui.current_theme_name = saved[1].name
              /\ gui.current_theme = saved[1].colors

\* C9 witness: a restarted session that selected, at startup, the theme saved
\* under a built-in name with colours of the user's own.
C9_Witness ==
    /\ phase = "running"
    /\ last.op = "start"
    /\ saved # << >>
    /\ saved[1].selected
    /\ saved[1].name \in BuiltinNames
    /\ saved[1].colors # get_default_themes[saved[1].name]
    /\ gui.current_theme = saved[1].colors

\* C10: deleting a user theme removes only that one name from the user theme
\* file and leaves every other user theme as it was; a built-in theme of the
\* same name is what the name resolves to afterwards; deleting a name that is
\* not in the user theme file changes nothing.
C10_DeleteRemovesOnlyThatName ==
    [][last'.op \in {"delete", "delete-no"} =>
          LET name   == last'.name
              before == load_themes(themeFile).dict
              after  == load_themes(themeFile').dict
          IN  /\ UNCHANGED <<dirCache, themeCache, gui, phase>>
              /\ IF last'.op = "delete" /\ themeFile.kind = "object" /\ name \in DOMAIN before
                 THEN /\ themeFile'.kind = "object"
                      /\ DOMAIN after = DOMAIN before \ {name}
                      /\ \A other \in DOMAIN after : after[other] = before[other]
                      /\ name \in BuiltinNames =>
                            ResolvesTo(themeFile', name, get_default_themes[name])
                 ELSE UNCHANGED themeFile]_vars

\* C10 witness: the user deleted a theme with a built-in name from a user theme
\* file that still holds a theme of the user's own.
C10_Witness ==
    /\ last.op = "delete"
    /\ editor.open
    /\ last.name \in BuiltinNames
    /\ last.name \notin editor.listbox
    /\ themeFile.kind = "object"
    /\ last.name \notin DOMAIN themeFile.obj
    /\ MyName \in DOMAIN themeFile.obj

\* The names the user theme file holds.
PersistedNames(file) == DOMAIN load_themes(file).dict

\* C11: built-in themes are not persisted: over any sequence of theme save,
\* apply and delete actions the user theme file gains no name other than the
\* one the user saves; a built-in theme the user did not save never enters it.
C11_OnlySavedThemesPersisted ==
    [][PersistedNames(themeFile') \subseteq
          PersistedNames(themeFile) \cup
              (IF last'.op = "save" THEN {last'.name} ELSE {})]_vars

\* C12: after every completed user action that changes the current directory
\* or the current theme name (browse, dropdown pick, editor Apply, editor
\* Save & Apply), the persisted last directory is the directory shown and the
\* persisted last theme name is the current theme name, as written or as
\* load_last_theme reads it back.
C12_PreferencesFlushedAtOnce ==
    (phase = "running" /\ last.op \in {"browse", "pick", "apply", "save"} /\ ~escaped) =>
        /\ dirCache.kind = "text"
        /\ dirCache.text = gui.label
        /\ \/ themeCache.kind = "text" /\ themeCache.text = gui.current_theme_name
           \/ load_last_theme(themeCache) = gui.current_theme_name

\* The path the last launch was pressed for.
LaunchedPath == gui.map[last.name].exe

\* C13: launching an executable path that no longer exists (removed between
\* scan and launch) shows the "Executable not found" message and starts no
\* process; it never shows the generic failure message for this case, and
\* nothing is raised to the caller.
C13_MissingExecutableReported ==
    (phase = "running" /\ last.op = "launch"
        /\ ~Exists(TreeAt(world, LaunchedPath.base), LaunchedPath.rel)) =>
            /\ msgs = {NotFoundMessage}
            /\ spawned = << >>
            /\ ~escaped

\* C14: for every content of the three preference files and every sequence of
\* user actions the application keeps running: an error ends only the action
\* that triggered it, and the session ends only by the user closing the window
\* or by cancelling the directory selection of a first run.
C14_SessionEndsOnlyByUser ==
    /\ phase \in {"off", "running", "closed", "cancelled"}
    /\ phase = "closed" => last.op \in {"close", "env"}
    /\ phase = "cancelled" => last.op \in {"start", "env"}
    /\ (escaped /\ last.op # "start") => phase = "running"

(***************************************************************************)
(* Properties of two instances writing the user theme file.                *)
(***************************************************************************)
\* C15: when two launcher instances each save a theme at the same time there
\* is no locking and the last write wins: after a write the user theme file
\* holds, whole, what that writer wrote, whatever the other instance wrote
\* before it.
C15_LastWriteWinsWholesale ==
    last.op = "write" =>
        themeFile = ObjectThemes(instances[last.name[1]].themes)

\* Both instances have written, and the file is what the later writer wrote,
\* without the theme the earlier writer saved.
C15_EarlierThemeLost ==
    /\ last.op = "write"
    /\ themeFile.kind = "object"
    /\ \E w \in Writers :
          /\ instances[w].pc = "idle"
          /\ instances[w].name \notin {<< >>, Steam}
          /\ instances[w].name \notin DOMAIN themeFile.obj

(***************************************************************************)
(* Properties of the theme names and of the caches' round trip.            *)
(***************************************************************************)
\* The current theme name and the persisted last-theme name are names of the
\* combined built-in-plus-user set.
ThemeNamesKnown ==
    /\ ~get_all_themes(themeFile).raised
    /\ load_last_theme(themeCache) \in DOMAIN get_all_themes(themeFile).themes
    /\ phase = "running" =>
          gui.current_theme_name \in DOMAIN get_all_themes(themeFile).themes

\* C16: over any sequence of theme actions (dropdown pick, Save & Apply, Apply,
\* Delete), window close and restart, the current theme name and the persisted
\* last-theme name keep naming a theme of the combined built-in-plus-user set,
\* so that opening the theme editor, which looks the persisted name up without
\* a fallback, never fails.
C16_ThemeNamesStayKnown ==
    [][ThemeNamesKnown =>
          /\ ThemeNamesKnown'
          /\ last'.op = "edit" => ~escaped']_vars

\* C17: save followed by load is a round trip: after save_last_directory(d) of
\* an existing directory d, load_last_directory returns exactly d, and after
\* save_last_theme(n) of a non-empty name n that the theme editor accepted,
\* load_last_theme returns exactly n, leading and trailing whitespace included.
C17_SaveLoadRoundTrip ==
    /\ (phase = "running" /\ last.op \in {"start", "browse", "refresh", "pick"} /\ ~escaped
           /\ last.dir # << >> /\ IsDirectory(world, last.dir[1]) /\ dirCache.kind = "text")
          => load_last_directory(dirCache, world) = last.dir
    /\ (phase = "running" /\ last.op = "save" /\ ~escaped
           /\ last.name # << >> /\ themeCache.kind = "text")
          => load_last_theme(themeCache) = last.name

====
